---- MODULE Spec2Model ----
(***************************************************************************)
(* BadgeLink filesystem transfer engine (badgelink_fs.c) as a state        *)
(* machine: the filesystem request handlers, the chunk handlers and the    *)
(* transfer stop routine, driven by the packet dispatcher that owns the    *)
(* negotiated protocol version and the transfer slot.  One action is one   *)
(* inbound packet handled from dispatch to the packet that is sent back.   *)
(***************************************************************************)
EXTENDS Integers, Sequences, FiniteSets, TLC

(***************************************************************************)
(* Bounds of the model.                                                    *)
(***************************************************************************)
\* Most bytes one upload stores in its target.
MaxLen == 2
\* Capacity of badgelink_Chunk.data.bytes (set by the protocol options file).
ChunkCap == 2
\* Highest client_version a VersionReq carries in the model.
MaxClientVersion == 3
\* Start requests (accepted or failing) handled from Idle in one run.
MaxStarts == 2

\* Entries the list array of a response holds (max_count).
ListCapacity == 2
\* Largest list_offset a List request carries.
MaxOffset == 2
\* Directory streams the backend can hold open at a time.
MaxOpenDirs == 1

\* sizeof(tmp) of the version 1 pre-read loop.
TmpSize == 128
\* Highest protocol version the server supports.
ServerMaxVersion == 2

\* Byte values that occur in file contents and chunks.
Byte == {0, 65}

Min(a, b) == IF a < b THEN a ELSE b

(***************************************************************************)
(* uint32_t values are kept as four bytes, least significant first, so     *)
(* that the whole 32-bit range is representable.                           *)
(***************************************************************************)
Zero32 == <<0, 0, 0, 0>>

RECURSIVE XorBits(_, _, _)
XorBits(a, b, n) ==
  IF n = 0 THEN 0 ELSE ((a + b) % 2) + 2 * XorBits(a \div 2, b \div 2, n - 1)

Xor32(c, d) ==
  <<XorBits(c[1], d[1], 8), XorBits(c[2], d[2], 8),
    XorBits(c[3], d[3], 8), XorBits(c[4], d[4], 8)>>

Not32(c) == <<255 - c[1], 255 - c[2], 255 - c[3], 255 - c[4]>>

\* Lookup table of the reflected CRC-32 polynomial 0xEDB88320.
crc32_le_table ==
  <<
    <<0, 0, 0, 0>>, <<150, 48, 7, 119>>, <<44, 97, 14, 238>>, <<186, 81, 9, 153>>,
    <<25, 196, 109, 7>>, <<143, 244, 106, 112>>, <<53, 165, 99, 233>>, <<163, 149, 100, 158>>,
    <<50, 136, 219, 14>>, <<164, 184, 220, 121>>, <<30, 233, 213, 224>>, <<136, 217, 210, 151>>,
    <<43, 76, 182, 9>>, <<189, 124, 177, 126>>, <<7, 45, 184, 231>>, <<145, 29, 191, 144>>,
    <<100, 16, 183, 29>>, <<242, 32, 176, 106>>, <<72, 113, 185, 243>>, <<222, 65, 190, 132>>,
    <<125, 212, 218, 26>>, <<235, 228, 221, 109>>, <<81, 181, 212, 244>>, <<199, 133, 211, 131>>,
    <<86, 152, 108, 19>>, <<192, 168, 107, 100>>, <<122, 249, 98, 253>>, <<236, 201, 101, 138>>,
    <<79, 92, 1, 20>>, <<217, 108, 6, 99>>, <<99, 61, 15, 250>>, <<245, 13, 8, 141>>,
    <<200, 32, 110, 59>>, <<94, 16, 105, 76>>, <<228, 65, 96, 213>>, <<114, 113, 103, 162>>,
    <<209, 228, 3, 60>>, <<71, 212, 4, 75>>, <<253, 133, 13, 210>>, <<107, 181, 10, 165>>,
    <<250, 168, 181, 53>>, <<108, 152, 178, 66>>, <<214, 201, 187, 219>>, <<64, 249, 188, 172>>,
    <<227, 108, 216, 50>>, <<117, 92, 223, 69>>, <<207, 13, 214, 220>>, <<89, 61, 209, 171>>,
    <<172, 48, 217, 38>>, <<58, 0, 222, 81>>, <<128, 81, 215, 200>>, <<22, 97, 208, 191>>,
    <<181, 244, 180, 33>>, <<35, 196, 179, 86>>, <<153, 149, 186, 207>>, <<15, 165, 189, 184>>,
    <<158, 184, 2, 40>>, <<8, 136, 5, 95>>, <<178, 217, 12, 198>>, <<36, 233, 11, 177>>,
    <<135, 124, 111, 47>>, <<17, 76, 104, 88>>, <<171, 29, 97, 193>>, <<61, 45, 102, 182>>,
    <<144, 65, 220, 118>>, <<6, 113, 219, 1>>, <<188, 32, 210, 152>>, <<42, 16, 213, 239>>,
    <<137, 133, 177, 113>>, <<31, 181, 182, 6>>, <<165, 228, 191, 159>>, <<51, 212, 184, 232>>,
    <<162, 201, 7, 120>>, <<52, 249, 0, 15>>, <<142, 168, 9, 150>>, <<24, 152, 14, 225>>,
    <<187, 13, 106, 127>>, <<45, 61, 109, 8>>, <<151, 108, 100, 145>>, <<1, 92, 99, 230>>,
    <<244, 81, 107, 107>>, <<98, 97, 108, 28>>, <<216, 48, 101, 133>>, <<78, 0, 98, 242>>,
    <<237, 149, 6, 108>>, <<123, 165, 1, 27>>, <<193, 244, 8, 130>>, <<87, 196, 15, 245>>,
    <<198, 217, 176, 101>>, <<80, 233, 183, 18>>, <<234, 184, 190, 139>>, <<124, 136, 185, 252>>,
    <<223, 29, 221, 98>>, <<73, 45, 218, 21>>, <<243, 124, 211, 140>>, <<101, 76, 212, 251>>,
    <<88, 97, 178, 77>>, <<206, 81, 181, 58>>, <<116, 0, 188, 163>>, <<226, 48, 187, 212>>,
    <<65, 165, 223, 74>>, <<215, 149, 216, 61>>, <<109, 196, 209, 164>>, <<251, 244, 214, 211>>,
    <<106, 233, 105, 67>>, <<252, 217, 110, 52>>, <<70, 136, 103, 173>>, <<208, 184, 96, 218>>,
    <<115, 45, 4, 68>>, <<229, 29, 3, 51>>, <<95, 76, 10, 170>>, <<201, 124, 13, 221>>,
    <<60, 113, 5, 80>>, <<170, 65, 2, 39>>, <<16, 16, 11, 190>>, <<134, 32, 12, 201>>,
    <<37, 181, 104, 87>>, <<179, 133, 111, 32>>, <<9, 212, 102, 185>>, <<159, 228, 97, 206>>,
    <<14, 249, 222, 94>>, <<152, 201, 217, 41>>, <<34, 152, 208, 176>>, <<180, 168, 215, 199>>,
    <<23, 61, 179, 89>>, <<129, 13, 180, 46>>, <<59, 92, 189, 183>>, <<173, 108, 186, 192>>,
    <<32, 131, 184, 237>>, <<182, 179, 191, 154>>, <<12, 226, 182, 3>>, <<154, 210, 177, 116>>,
    <<57, 71, 213, 234>>, <<175, 119, 210, 157>>, <<21, 38, 219, 4>>, <<131, 22, 220, 115>>,
    <<18, 11, 99, 227>>, <<132, 59, 100, 148>>, <<62, 106, 109, 13>>, <<168, 90, 106, 122>>,
    <<11, 207, 14, 228>>, <<157, 255, 9, 147>>, <<39, 174, 0, 10>>, <<177, 158, 7, 125>>,
    <<68, 147, 15, 240>>, <<210, 163, 8, 135>>, <<104, 242, 1, 30>>, <<254, 194, 6, 105>>,
    <<93, 87, 98, 247>>, <<203, 103, 101, 128>>, <<113, 54, 108, 25>>, <<231, 6, 107, 110>>,
    <<118, 27, 212, 254>>, <<224, 43, 211, 137>>, <<90, 122, 218, 16>>, <<204, 74, 221, 103>>,
    <<111, 223, 185, 249>>, <<249, 239, 190, 142>>, <<67, 190, 183, 23>>, <<213, 142, 176, 96>>,
    <<232, 163, 214, 214>>, <<126, 147, 209, 161>>, <<196, 194, 216, 56>>, <<82, 242, 223, 79>>,
    <<241, 103, 187, 209>>, <<103, 87, 188, 166>>, <<221, 6, 181, 63>>, <<75, 54, 178, 72>>,
    <<218, 43, 13, 216>>, <<76, 27, 10, 175>>, <<246, 74, 3, 54>>, <<96, 122, 4, 65>>,
    <<195, 239, 96, 223>>, <<85, 223, 103, 168>>, <<239, 142, 110, 49>>, <<121, 190, 105, 70>>,
    <<140, 179, 97, 203>>, <<26, 131, 102, 188>>, <<160, 210, 111, 37>>, <<54, 226, 104, 82>>,
    <<149, 119, 12, 204>>, <<3, 71, 11, 187>>, <<185, 22, 2, 34>>, <<47, 38, 5, 85>>,
    <<190, 59, 186, 197>>, <<40, 11, 189, 178>>, <<146, 90, 180, 43>>, <<4, 106, 179, 92>>,
    <<167, 255, 215, 194>>, <<49, 207, 208, 181>>, <<139, 158, 217, 44>>, <<29, 174, 222, 91>>,
    <<176, 194, 100, 155>>, <<38, 242, 99, 236>>, <<156, 163, 106, 117>>, <<10, 147, 109, 2>>,
    <<169, 6, 9, 156>>, <<63, 54, 14, 235>>, <<133, 103, 7, 114>>, <<19, 87, 0, 5>>,
    <<130, 74, 191, 149>>, <<20, 122, 184, 226>>, <<174, 43, 177, 123>>, <<56, 27, 182, 12>>,
    <<155, 142, 210, 146>>, <<13, 190, 213, 229>>, <<183, 239, 220, 124>>, <<33, 223, 219, 11>>,
    <<212, 210, 211, 134>>, <<66, 226, 212, 241>>, <<248, 179, 221, 104>>, <<110, 131, 218, 31>>,
    <<205, 22, 190, 129>>, <<91, 38, 185, 246>>, <<225, 119, 176, 111>>, <<119, 71, 183, 24>>,
    <<230, 90, 8, 136>>, <<112, 106, 15, 255>>, <<202, 59, 6, 102>>, <<92, 11, 1, 17>>,
    <<255, 158, 101, 143>>, <<105, 174, 98, 248>>, <<211, 255, 107, 97>>, <<69, 207, 108, 22>>,
    <<120, 226, 10, 160>>, <<238, 210, 13, 215>>, <<84, 131, 4, 78>>, <<194, 179, 3, 57>>,
    <<97, 38, 103, 167>>, <<247, 22, 96, 208>>, <<77, 71, 105, 73>>, <<219, 119, 110, 62>>,
    <<74, 106, 209, 174>>, <<220, 90, 214, 217>>, <<102, 11, 223, 64>>, <<240, 59, 216, 55>>,
    <<83, 174, 188, 169>>, <<197, 158, 187, 222>>, <<127, 207, 178, 71>>, <<233, 255, 181, 48>>,
    <<28, 242, 189, 189>>, <<138, 194, 186, 202>>, <<48, 147, 179, 83>>, <<166, 163, 180, 36>>,
    <<5, 54, 208, 186>>, <<147, 6, 215, 205>>, <<41, 87, 222, 84>>, <<191, 103, 217, 35>>,
    <<46, 122, 102, 179>>, <<184, 74, 97, 196>>, <<2, 27, 104, 93>>, <<148, 43, 111, 42>>,
    <<55, 190, 11, 180>>, <<161, 142, 12, 195>>, <<27, 223, 5, 90>>, <<141, 239, 2, 45>>
  >>

\* crc = crc32_le_table[(crc ^ byte) & 0xff] ^ (crc >> 8)
CrcByte(c, b) ==
  Xor32(crc32_le_table[XorBits(c[1], b, 8) + 1], <<c[2], c[3], c[4], 0>>)

RECURSIVE CrcUpdate(_, _)
CrcUpdate(c, data) ==
  IF data = <<>> THEN c
  ELSE CrcByte(CrcUpdate(c, SubSeq(data, 1, Len(data) - 1)), data[Len(data)])

\* esp_crc32_le(crc, buf, len): the running value is inverted on entry and
\* on exit, so a result can be passed back in to continue over more data.
esp_crc32_le(crc, data) == Not32(CrcUpdate(Not32(crc), data))

\* CRC32 of a whole byte string.
Crc32(data) == esp_crc32_le(Zero32, data)

(***************************************************************************)
(* Storage backend: the namespace the POSIX calls of the handlers act on.  *)
(***************************************************************************)
Paths == {"/a", "/sd/b", "/d", "/x/c", "/sd"}
\* The root directory: always there, never a target of Mkdir or Rmdir.
Root == "/"
\* Paths for which strncmp(path, "/sd", 3) == 0.
SdPaths == {"/sd/b"}
\* Paths whose parent directory does not exist.
NoParent == {"/x/c"}

Absent == [kind |-> "none", data |-> <<>>]
Directory == [kind |-> "dir", data |-> <<>>]
File(d) == [kind |-> "file", data |-> d]

RECURSIVE SeqsUpTo(_)
SeqsUpTo(n) ==
  IF n = 0 THEN {<<>>}
  ELSE LET S == SeqsUpTo(n - 1)
       IN S \cup {Append(d, b) : d \in {x \in S : Len(x) = n - 1}, b \in Byte}

\* Chunk payloads a client sends.
ChunkData == SeqsUpTo(ChunkCap)

\* Storage contents the engine may be started on.
InitialStorage ==
  { [p \in Paths |-> CASE p = "/a" -> a
                       [] p = "/sd/b" -> File(<<65>>)
                       [] p = "/d" -> Directory
                       [] p = "/sd" -> Directory
                       [] OTHER -> Absent]
    : a \in {Absent, File(<<0, 65, 65>>)} }

(***************************************************************************)
(* Packets.  A request and a response are records of one shape each; the   *)
(* tag says which member of the oneof is set.                              *)
(***************************************************************************)
NoReq ==
  [tag |-> "none", type |-> "", path |-> "", size |-> 0, crc32 |-> Zero32,
   data |-> <<>>, client_version |-> 0, list_offset |-> 0]
\* What the state keeps of the request handled last: which request it was,
\* and the path and list offset it named.
Kind(r) ==
  [tag |-> r.tag, type |-> r.type, client_version |-> r.client_version,
   path |-> r.path, list_offset |-> r.list_offset]
SyncPacket == [NoReq EXCEPT !.tag = "sync"]
VersionReq(cv) == [NoReq EXCEPT !.tag = "version_req", !.client_version = cv]
FsActionReq(type, path, size, crc) ==
  [NoReq EXCEPT !.tag = "fs_action", !.type = type, !.path = path,
                !.size = size, !.crc32 = crc]
AppfsActionReq(type) == [NoReq EXCEPT !.tag = "appfs_action", !.type = type]
UploadChunk(data) == [NoReq EXCEPT !.tag = "upload_chunk", !.data = data]
XferContinue == [NoReq EXCEPT !.tag = "xfer_continue"]
XferFinish == [NoReq EXCEPT !.tag = "xfer_finish"]
\* A List request: an fs_action with a list_offset.
ListReq(path, offset) ==
  [NoReq EXCEPT !.tag = "fs_action", !.type = "FsActionList", !.path = path,
                !.list_offset = offset]

NoPacket ==
  [tag |-> "none", status_code |-> "", crc32 |-> Zero32, size |-> 0,
   position |-> 0, data |-> <<>>, server_version |-> 0,
   negotiated_version |-> 0, list |-> <<>>, total_size |-> 0,
   list_count |-> 0, is_dir |-> FALSE]
\* badgelink_status_*(): a response that carries only a status code.
StatusResp(code) == [NoPacket EXCEPT !.tag = "status", !.status_code = code]
\* Mutant: the response is formatted and never sent.
FsCrcResp_unsent(crc, size) == NoPacket

\* FsActionResp with which_val = crc32.
FsCrcResp(crc, size) ==
  [NoPacket EXCEPT !.tag = "fs_resp", !.status_code = "StatusOk",
                   !.crc32 = crc, !.size = size]
\* Response with which_resp = download_chunk.
DownloadChunk(pos, data) ==
  [NoPacket EXCEPT !.tag = "download_chunk", !.status_code = "StatusOk",
                   !.position = pos, !.data = data]
\* FsActionResp with which_val = list.
FsListResp(list, total_size, list_count) ==
  [NoPacket EXCEPT !.tag = "fs_list", !.status_code = "StatusOk",
                   !.list = list, !.total_size = total_size,
                   !.list_count = list_count]
\* FsActionResp with which_val = stat; the three time stamps are left out.
FsStatResp(size, is_dir) ==
  [NoPacket EXCEPT !.tag = "fs_stat", !.status_code = "StatusOk",
                   !.size = size, !.is_dir = is_dir]
VersionResp(server, negotiated) ==
  [NoPacket EXCEPT !.tag = "version_resp", !.status_code = "StatusOk",
                   !.server_version = server, !.negotiated_version = negotiated]

\* Values of path, size and crc32 an Upload start request carries.
UploadPaths == {"/a", "/d", "/x/c"}
ReqSizes == {1}
ReqCrcs == {Crc32(<<65>>), Crc32(<<0, 65>>)}
\* Paths of the Download, Delete and unsupported requests.
FilePaths == {"/a", "/sd/b", "/d", "/x/c"}
\* Paths of the List, Mkdir, Rmdir and Stat requests.
ListPaths == {Root, "/sd/b", "/x/c"}
MkdirPaths == {"/sd", "/x/c"}
RmdirPaths == {"/sd", "/sd/b", "/x/c"}
StatPaths == {"/a", "/d", "/x/c"}

(***************************************************************************)
(* State.                                                                  *)
(***************************************************************************)
VARIABLES
  starts_used,               \* start requests handled from Idle so far
  fs,                        \* the storage namespace: path -> node
  protocol_version,          \* the negotiated version
  badgelink_xfer_type,       \* "NONE", "FS" or "APPFS"
  badgelink_xfer_is_upload,
  badgelink_xfer_size,
  badgelink_xfer_pos,
  xfer_path,
  xfer_fd,                   \* the FILE* and the stream it points to
  xfer_is_sd,
  xfer_crc32,
  running_crc,
  req,                       \* the request handled last
  resp,                      \* the packet sent for it, NoPacket if none
  up_ok_data,                \* chunks answered StatusOk in this upload, joined
  up_all_ok,                 \* every chunk of this upload was answered StatusOk
  dl_sent,                   \* data of the DownloadChunk responses of this download
  dl_v2,                     \* version >= 2 at the start and at every chunk of it
  committed,                 \* path -> what a fully acknowledged upload stored there
  aborted,                   \* what the last request aborted: "none", "upload", "download", "appfs"
  enumerated,                \* what readdir returned to the last request, if it was a List
  write_errno,               \* errno of the short fwrite of the last request, "" if none
  open_dirs                  \* DIR* streams opened by opendir and not closed

xferVars ==
  <<badgelink_xfer_type, badgelink_xfer_is_upload, badgelink_xfer_size,
    badgelink_xfer_pos, xfer_path, xfer_fd, xfer_is_sd, xfer_crc32, running_crc>>
histVars == <<up_ok_data, up_all_ok, dl_sent, dl_v2, committed, aborted, enumerated, write_errno>>
vars == <<starts_used, fs, protocol_version, xferVars, req, resp, histVars, open_dirs>>

\* FILE* values: NULL, an open stream, or a pointer left over after fclose.
\* off is the file position, err the stream's error indicator, nread the bytes
\* read through the stream since it was opened, closes the number of times
\* fclose was called on it.
NullFd == [st |-> "null", off |-> 0, err |-> FALSE, nread |-> 0, closes |-> 0]
OpenFd == [st |-> "open", off |-> 0, err |-> FALSE, nread |-> 0, closes |-> 0]
ClosedFd == [st |-> "closed", off |-> 0, err |-> FALSE, nread |-> 0, closes |-> 1]

NoCommit == [known |-> FALSE, data |-> <<>>]

Init ==
  /\ starts_used = 0
  /\ fs \in InitialStorage
  /\ protocol_version = 1
  /\ badgelink_xfer_type = "NONE"
  /\ badgelink_xfer_is_upload = FALSE
  /\ badgelink_xfer_size = 0
  /\ badgelink_xfer_pos = 0
  /\ xfer_path = ""
  /\ xfer_fd = NullFd
  /\ xfer_is_sd = FALSE
  /\ xfer_crc32 = Zero32
  /\ running_crc = Zero32
  /\ req = Kind(NoReq)
  /\ resp = NoPacket
  /\ up_ok_data = <<>>
  /\ up_all_ok = TRUE
  /\ dl_sent = <<>>
  /\ dl_v2 = FALSE
  /\ committed = [p \in Paths |-> NoCommit]
  /\ aborted = "none"
  /\ enumerated = <<>>
  /\ write_errno = ""
  /\ open_dirs = 0

(***************************************************************************)
(* Backend calls.  A call that can fail for a reason the namespace does    *)
(* not decide (an I/O error, no memory) offers both outcomes.              *)
(***************************************************************************)
\* fopen(path, "w+b"): the errno values it can end with, "ok" for a stream.
FopenWrite(p) ==
  IF p \in NoParent THEN {"ENOENT"}
  ELSE IF fs[p].kind = "dir" THEN {"EISDIR"}
  ELSE {"ok", "EIO"}

\* fopen(path, "rb").
FopenRead(p) ==
  IF fs[p].kind = "none" THEN {"ENOENT"}
  ELSE IF fs[p].kind = "dir" THEN {"EISDIR"}
  ELSE {"ok", "EIO"}

\* The stream of the active transfer holds the file at path p open.
HeldOpen(p) == xfer_fd.st = "open" /\ xfer_path = p

\* unlink(path): the errno values it can end with.  A file that a stream
\* holds open is locked by the backend and cannot be removed.
UnlinkResult(p) ==
  IF fs[p].kind = "none" THEN "ENOENT"
  ELSE IF fs[p].kind = "dir" THEN "EISDIR"
  ELSE IF HeldOpen(p) THEN "EBUSY"
  ELSE "ok"

\* The namespace after unlink(path) of a path no stream holds open; a
\* failing unlink leaves it as it is.
Unlinked(p) ==
  IF p \in Paths /\ fs[p].kind = "file" THEN [fs EXCEPT ![p] = Absent] ELSE fs

\* The directory a path lies in, and the name it has there.
Parent(p) ==
  CASE p = "/sd/b" -> "/sd"
    [] p = "/x/c" -> "/x"
    [] OTHER -> Root
Name(p) ==
  CASE p = "/a" -> "a"
    [] p = "/sd/b" -> "b"
    [] p = "/d" -> "d"
    [] p = "/x/c" -> "c"
    [] OTHER -> "sd"

Exists(p) == p = Root \/ (p \in Paths /\ fs[p].kind # "none")
IsDirectory(p) == p = Root \/ (p \in Paths /\ fs[p].kind = "dir")

\* The entries of directory dir, as struct dirent values, in path order.
PathOrder == <<"/a", "/d", "/sd", "/sd/b", "/x/c">>
Dirent(p) == [name |-> Name(p), is_dir |-> fs[p].kind = "dir"]
Children(dir) ==
  LET in(i) == Parent(PathOrder[i]) = dir /\ Exists(PathOrder[i])
      idx == SelectSeq(<<1, 2, 3, 4, 5>>, in)
  IN [i \in 1..Len(idx) |-> Dirent(PathOrder[idx[i]])]

Reverse(q) == [i \in 1..Len(q) |-> q[Len(q) + 1 - i]]
DotEntries == <<[name |-> ".", is_dir |-> TRUE], [name |-> "..", is_dir |-> TRUE]>>

\* What successive readdir calls can return for dir: the backend decides the
\* order and whether the entries `.` and `..` are among them.
Readdir(dir) ==
  {dots \o ch : dots \in {<<>>, DotEntries},
                ch \in {Children(dir), Reverse(Children(dir))}}

\* opendir(path): the errno values it can end with.  Each open stream takes
\* memory of the backend, which has room for MaxOpenDirs of them.
OpendirResult(p) ==
  IF ~Exists(p) THEN {"ENOENT"}
  ELSE IF ~IsDirectory(p) THEN {"ENOTDIR"}
  ELSE IF open_dirs >= MaxOpenDirs THEN {"ENOMEM"}
  ELSE {"ok", "ENOMEM"}

\* mkdir(path, 0777)
MkdirResult(p) ==
  IF Exists(p) THEN {"EEXIST"}
  ELSE IF ~IsDirectory(Parent(p)) THEN {"ENOENT"}
  ELSE {"ok", "EIO"}

\* rmdir(path)
RmdirResult(p) ==
  IF ~Exists(p) THEN {"ENOENT"}
  ELSE IF ~IsDirectory(p) THEN {"ENOTDIR"}
  ELSE IF Children(p) # <<>> THEN {"ENOTEMPTY"}
  ELSE {"ok", "EIO"}

\* stat(path, &statbuf)
StatResult(p) == IF ~Exists(p) THEN {"ENOENT"} ELSE {"ok", "EIO"}

fclose(f) == [ClosedFd EXCEPT !.closes = f.closes + 1]

\* Mutant: the stream is left open.
bl_sd_fclose_leak(f) == f

\* bl_sd_fclose: if (f != NULL) fclose(f);
bl_sd_fclose(f) == IF f.st = "null" THEN f ELSE fclose(f)

\* if (xfer_is_sd) bl_sd_fclose(xfer_fd); else fclose(xfer_fd);
CloseXferFd(is_sd, f) == IF is_sd THEN bl_sd_fclose(f) ELSE fclose(f)

\* Mutant: every failed fopen is reported as an internal error.
OpenErrorStatus_internal(errno) == "StatusInternalError"

\* The errno mapping after a failed fopen in the two start handlers.
OpenErrorStatus(errno) ==
  IF errno = "ENOENT" THEN "StatusNotFound"
  ELSE IF errno = "EISDIR" THEN "StatusIsDir"
  ELSE "StatusInternalError"

\* The version 1 pre-read: fread TmpSize bytes at a time until it returns 0,
\* folding each block into crc and adding its length to size.
RECURSIVE ReadAll(_, _, _)
ReadAll(data, off, acc) ==
  LET rcount == Min(TmpSize, Len(data) - off)
      next == [crc |-> esp_crc32_le(acc.crc, SubSeq(data, off + 1, off + rcount)),
               size |-> acc.size + rcount]
  IN IF rcount = 0 THEN next ELSE ReadAll(data, off + rcount, next)

\* Mutant: the stream is left where the pre-read stopped.
Rewound_not(f) == f

\* fseek(xfer_fd, 0, SEEK_SET)
Rewound(f) == [f EXCEPT !.off = 0]

badgelink_get_protocol_version == protocol_version

(***************************************************************************)
(* badgelink_fs.c: the transfer handlers.                                  *)
(***************************************************************************)
\* Mutant: the guard looks for a filesystem transfer only.
TransferActive_fs_only == badgelink_xfer_type = "FS"

\* badgelink_xfer_type != BADGELINK_XFER_NONE
TransferActive == badgelink_xfer_type # "NONE"

\* badgelink_get_protocol_version() >= 2 in badgelink_fs_download
StartUsesStat == badgelink_get_protocol_version >= 2

\* badgelink_get_protocol_version() >= 2 in badgelink_fs_xfer_download
ChunkStreamsCrc == badgelink_get_protocol_version >= 2

\* Mutant: the finish answers with a plain status whatever the version.
FinishSendsCrc_never == FALSE

\* badgelink_get_protocol_version() >= 2 in badgelink_fs_xfer_stop
FinishSendsCrc == badgelink_get_protocol_version >= 2

\* Mutant: every chunk starts the CRC afresh.
UploadFold_restart(data) == esp_crc32_le(Zero32, data)

\* Mutant: every chunk starts the CRC afresh.
DownloadFold_restart(data) == esp_crc32_le(Zero32, data)

\* running_crc = esp_crc32_le(running_crc, chunk->data.bytes, chunk->data.size)
UploadFold(data) == esp_crc32_le(running_crc, data)

DownloadFold(data) == esp_crc32_le(running_crc, data)

\* Mutant: the comparison is dropped.
UploadCrcMismatch_never == FALSE

\* running_crc != xfer_crc32
UploadCrcMismatch == running_crc # xfer_crc32

\* Mutant: the abnormal stop unlinks whatever the direction.
AbortUnlinks_always == TRUE

\* if (badgelink_xfer_is_upload) unlink(xfer_path), in the abnormal stop
AbortUnlinks == badgelink_xfer_is_upload

\* Handle a FS upload request.
badgelink_fs_upload(r) ==
  IF TransferActive
  THEN /\ resp' = StatusResp("StatusIllState")
       /\ UNCHANGED <<fs, xferVars>>
  ELSE \E res \in FopenWrite(r.path) :
         /\ xfer_path' = r.path
         /\ xfer_is_sd' = (r.path \in SdPaths)
         /\ IF res = "ok"
            THEN /\ fs' = [fs EXCEPT ![r.path] = File(<<>>)]
                 /\ xfer_fd' = OpenFd
                 /\ badgelink_xfer_type' = "FS"
                 /\ badgelink_xfer_is_upload' = TRUE
                 /\ badgelink_xfer_size' = r.size
                 /\ badgelink_xfer_pos' = 0
                 /\ xfer_crc32' = r.crc32
                 /\ running_crc' = Zero32
                 /\ resp' = StatusResp("StatusOk")
            ELSE /\ xfer_fd' = NullFd
                 /\ resp' = StatusResp(OpenErrorStatus(res))
                 /\ UNCHANGED <<fs, badgelink_xfer_type, badgelink_xfer_is_upload,
                                badgelink_xfer_size, badgelink_xfer_pos,
                                xfer_crc32, running_crc>>

\* Handle a FS download request.
badgelink_fs_download(r) ==
  IF TransferActive
  THEN /\ resp' = StatusResp("StatusIllState")
       /\ UNCHANGED <<fs, xferVars>>
  ELSE \E res \in FopenRead(r.path) :
       \E stat_ok \in (IF res = "ok" /\ StartUsesStat THEN BOOLEAN ELSE {TRUE}) :
         /\ xfer_path' = r.path
         /\ xfer_is_sd' = (r.path \in SdPaths)
         /\ fs' = fs
         /\ xfer_crc32' = xfer_crc32
         /\ IF res # "ok"
            THEN /\ xfer_fd' = NullFd
                 /\ resp' = StatusResp(OpenErrorStatus(res))
                 /\ UNCHANGED <<badgelink_xfer_type, badgelink_xfer_is_upload,
                                badgelink_xfer_size, badgelink_xfer_pos, running_crc>>
            ELSE IF StartUsesStat /\ ~stat_ok
            THEN \* fstat failed
                 /\ xfer_fd' = CloseXferFd(r.path \in SdPaths, OpenFd)
                 /\ resp' = StatusResp("StatusInternalError")
                 /\ UNCHANGED <<badgelink_xfer_type, badgelink_xfer_is_upload,
                                badgelink_xfer_size, badgelink_xfer_pos, running_crc>>
            ELSE LET data == fs[r.path].data
                     pre == ReadAll(data, 0, [crc |-> Zero32, size |-> 0])
                     crc == IF StartUsesStat THEN Zero32 ELSE pre.crc
                     size == IF StartUsesStat THEN Len(data) ELSE pre.size
                 IN /\ xfer_fd' = IF StartUsesStat THEN OpenFd
                                  ELSE Rewound([OpenFd EXCEPT !.off = pre.size,
                                                              !.nread = pre.size])
                    /\ running_crc' = IF StartUsesStat THEN Zero32 ELSE running_crc
                    /\ badgelink_xfer_type' = "FS"
                    /\ badgelink_xfer_is_upload' = FALSE
                    /\ badgelink_xfer_pos' = 0
                    /\ badgelink_xfer_size' = size
                    /\ resp' = FsCrcResp(crc, size)

\* Mutant: the test for ENOSPC is missing.
WriteErrorStatus_internal(errno) == "StatusInternalError"

\* The errno mapping after a short fwrite.
WriteErrorStatus(errno) ==
  IF errno = "ENOSPC" THEN "StatusNoSpace" ELSE "StatusInternalError"

\* Handle a FS upload (host->badge) transfer.  fwrite stores the first k bytes
\* of the chunk; k below the chunk size is a short write, with errno ENOSPC or
\* another value.  The caller advances badgelink_xfer_pos.
badgelink_fs_xfer_upload(r) ==
  \E k \in 0..Len(r.data) :
  \E errno \in (IF k < Len(r.data) THEN {"ENOSPC", "EIO"} ELSE {"ok"}) :
    /\ fs' = [fs EXCEPT ![xfer_path] = File(@.data \o SubSeq(r.data, 1, k))]
    /\ IF k < Len(r.data)
       THEN /\ resp' = StatusResp(WriteErrorStatus(errno))
            /\ running_crc' = running_crc
            /\ write_errno' = errno
       ELSE /\ running_crc' = UploadFold(r.data)
            /\ resp' = StatusResp("StatusOk")
            /\ write_errno' = ""
    /\ UNCHANGED <<badgelink_xfer_type, badgelink_xfer_is_upload,
                   badgelink_xfer_size, xfer_path, xfer_fd, xfer_is_sd, xfer_crc32>>

\* Handle a FS download (badge->host) transfer.  fread fills the chunk from
\* the file position; a read error sets the stream's error indicator, which
\* nothing clears.  The caller advances badgelink_xfer_pos.
badgelink_fs_xfer_download ==
  LET data == fs[xfer_path].data
      n == Min(ChunkCap, Len(data) - xfer_fd.off)
  IN \E e \in (IF xfer_fd.err THEN {TRUE} ELSE BOOLEAN) :
       \E k \in (IF e /\ ~xfer_fd.err THEN 0..n ELSE {n}) :
         /\ xfer_fd' = [xfer_fd EXCEPT !.off = @ + k, !.nread = @ + k, !.err = e]
         /\ IF e
            THEN /\ resp' = StatusResp("StatusInternalError")
                 /\ running_crc' = running_crc
            ELSE LET chunk == SubSeq(data, xfer_fd.off + 1, xfer_fd.off + n)
                 IN /\ running_crc' = IF ChunkStreamsCrc THEN DownloadFold(chunk)
                                      ELSE running_crc
                    /\ resp' = DownloadChunk(badgelink_xfer_pos, chunk)
         /\ UNCHANGED <<fs, badgelink_xfer_type, badgelink_xfer_is_upload,
                        badgelink_xfer_size, xfer_path, xfer_is_sd, xfer_crc32>>

\* Finish a FS transfer.  The caller clears badgelink_xfer_type.
badgelink_fs_xfer_stop(abnormal) ==
  /\ xfer_fd' = CloseXferFd(xfer_is_sd, xfer_fd)
  /\ IF abnormal
     THEN /\ fs' = IF AbortUnlinks THEN Unlinked(xfer_path) ELSE fs
          /\ resp' = NoPacket
     ELSE IF badgelink_xfer_is_upload
     THEN IF UploadCrcMismatch
          THEN /\ fs' = Unlinked(xfer_path)
               /\ resp' = StatusResp("StatusInternalError")
          ELSE /\ fs' = fs
               /\ resp' = StatusResp("StatusOk")
     ELSE /\ fs' = fs
          /\ resp' = IF FinishSendsCrc
                     THEN FsCrcResp(running_crc, badgelink_xfer_size)
                     ELSE StatusResp("StatusOk")
  /\ UNCHANGED <<badgelink_xfer_is_upload, badgelink_xfer_size, badgelink_xfer_pos,
                 xfer_path, xfer_is_sd, xfer_crc32, running_crc>>

\* Handle a FS delete request.
badgelink_fs_delete(r) ==
  LET errno == UnlinkResult(r.path)
  IN /\ fs' = IF errno = "ok" THEN [fs EXCEPT ![r.path] = Absent] ELSE fs
     /\ resp' = StatusResp(IF errno = "ok" THEN "StatusOk"
                           ELSE IF errno = "ENOENT" THEN "StatusNotFound"
                           ELSE IF errno = "EISDIR" THEN "StatusIsDir"
                           ELSE "StatusInternalError")
     /\ UNCHANGED xferVars

\* strcmp(ent->d_name, ".") || strcmp(ent->d_name, "..")
IsCounted(name) == (name # ".") \/ (name # "..")

\* The readdir loop of badgelink_fs_list over the entries ents from index i
\* on; acc holds resp->list, resp->total_size and resp->list_count.
RECURSIVE ListLoop(_, _, _, _)
ListLoop(ents, i, skip, acc) ==
  IF i > Len(ents) THEN acc
  ELSE LET ent == ents[i]
       IN IF IsCounted(ent.name)
          THEN LET counted == [acc EXCEPT !.total_size = @ + 1]
               IN IF skip > 0
                  THEN ListLoop(ents, i + 1, skip - 1, counted)
                  ELSE IF acc.list_count < ListCapacity
                  THEN ListLoop(ents, i + 1, skip,
                                [counted EXCEPT !.list = Append(@, ent),
                                                !.list_count = @ + 1])
                  ELSE ListLoop(ents, i + 1, skip, counted)
          ELSE ListLoop(ents, i + 1, skip, acc)

\* Handle a FS list request.  The stream dp that opendir returned is read to
\* its end and is still open when the function returns: there is no closedir.
badgelink_fs_list(r) ==
  \E res \in OpendirResult(r.path) :
    /\ IF res = "ENOENT"
       THEN /\ resp' = StatusResp("StatusNotFound")
            /\ enumerated' = <<>>
            /\ open_dirs' = open_dirs
       ELSE IF res # "ok"
       THEN /\ resp' = StatusResp("StatusInternalError")
            /\ enumerated' = <<>>
            /\ open_dirs' = open_dirs
       ELSE \E ents \in Readdir(r.path) :
              LET out == ListLoop(ents, 1, r.list_offset,
                                  [list |-> <<>>, total_size |-> 0, list_count |-> 0])
              IN /\ resp' = FsListResp(out.list, out.total_size, out.list_count)
                 /\ enumerated' = ents
                 /\ open_dirs' = open_dirs + 1
    /\ UNCHANGED <<fs, xferVars>>

\* Handle a FS mkdir request.
badgelink_fs_mkdir(r) ==
  \E errno \in MkdirResult(r.path) :
    /\ fs' = IF errno = "ok" THEN [fs EXCEPT ![r.path] = Directory] ELSE fs
    /\ resp' = StatusResp(IF errno = "ok" THEN "StatusOk"
                          ELSE IF errno = "EEXIST" THEN "StatusExists"
                          ELSE IF errno = "ENOENT" THEN "StatusNotFound"
                          ELSE "StatusInternalError")
    /\ UNCHANGED xferVars

\* Handle a FS stat request.
badgelink_fs_stat(r) ==
  \E errno \in StatResult(r.path) :
    /\ resp' = IF errno = "ok"
               THEN FsStatResp(Len(fs[r.path].data), fs[r.path].kind = "dir")
               ELSE IF errno = "ENOENT" THEN StatusResp("StatusNotFound")
               ELSE StatusResp("StatusInternalError")
    /\ UNCHANGED <<fs, xferVars>>

\* Mutant: the ENOTDIR case is missing.
RmdirErrorStatus_no_notdir(errno) ==
  IF errno = "ENOENT" THEN "StatusNotFound"
  ELSE IF errno = "ENOTEMPTY" THEN "StatusNotEmpty"
  ELSE "StatusInternalError"

\* The errno mapping after a failed rmdir; the second ENOENT case of the
\* source is never reached.
RmdirErrorStatus(errno) ==
  IF errno = "ENOENT" THEN "StatusNotFound"
  ELSE IF errno = "ENOTEMPTY" THEN "StatusNotEmpty"
  ELSE IF errno = "ENOTDIR" THEN "StatusIsFile"
  ELSE IF errno = "ENOENT" THEN "StatusNotFound"
  ELSE "StatusInternalError"

\* Handle a FS rmdir request.
badgelink_fs_rmdir(r) ==
  \E errno \in RmdirResult(r.path) :
    /\ fs' = IF errno = "ok" THEN [fs EXCEPT ![r.path] = Absent] ELSE fs
    /\ resp' = StatusResp(IF errno = "ok" THEN "StatusOk"
                          ELSE RmdirErrorStatus(errno))
    /\ UNCHANGED xferVars

\* Mutant: the type falls into an empty handler, which sends nothing.
DefaultCase_empty_handler == NoPacket

\* default: badgelink_status_unsupported();
DefaultCase == StatusResp("StatusNotSupported")

\* Handle a FS request packet.
badgelink_fs_handle(r) ==
  CASE r.type = "FsActionList" -> badgelink_fs_list(r)
    [] r.type = "FsActionMkdir" -> badgelink_fs_mkdir(r)
    [] r.type = "FsActionStat" -> badgelink_fs_stat(r)
    [] r.type = "FsActionRmdir" -> badgelink_fs_rmdir(r)
    [] r.type = "FsActionDelete" -> badgelink_fs_delete(r)
    [] r.type = "FsActionUpload" -> badgelink_fs_upload(r)
    [] r.type = "FsActionDownload" -> badgelink_fs_download(r)
    [] OTHER -> /\ resp' = DefaultCase
                /\ UNCHANGED <<fs, xferVars>>

(***************************************************************************)
(* The packet dispatcher: sync, version negotiation, and the routing of    *)
(* requests to the handlers above.  It owns protocol_version, clears       *)
(* badgelink_xfer_type when a transfer ends and advances                   *)
(* badgelink_xfer_pos by the bytes a chunk carried.                        *)
(***************************************************************************)
\* Requests a client sends to the filesystem handler.
FsRequests ==
  {FsActionReq("FsActionUpload", p, sz, c) : p \in UploadPaths, sz \in ReqSizes, c \in ReqCrcs}
  \cup {FsActionReq(t, p, 0, Zero32) :
          t \in {"FsActionDownload", "FsActionDelete"}, p \in FilePaths}
  \cup {FsActionReq(t, "/a", 0, Zero32) : t \in {"FsActionCrc23", "FsActionGetUsage"}}

\* Requests to the handlers that work on directories and on file attributes.
DirRequests ==
  {ListReq(p, k) : p \in ListPaths, k \in 0..MaxOffset}
  \cup {FsActionReq("FsActionMkdir", p, 0, Zero32) : p \in MkdirPaths}
  \cup {FsActionReq("FsActionRmdir", p, 0, Zero32) : p \in RmdirPaths}
  \cup {FsActionReq("FsActionStat", p, 0, Zero32) : p \in StatPaths}

\* A commit record survives a step only if the step left the file alone.
CommitAfter == [p \in Paths |-> IF fs'[p] = fs[p] THEN committed[p] ELSE NoCommit]

\* The record of the transfer that ended is dropped.
HistoryCleared ==
  /\ up_ok_data' = <<>>
  /\ up_all_ok' = TRUE
  /\ dl_sent' = <<>>
  /\ dl_v2' = FALSE

\* Mutant: the client's version is taken as it comes.
Negotiate_unclamped(client_version) == client_version

\* Mutant: a sync keeps the negotiated version.
VersionAfterSync_kept == protocol_version

\* The version a sync packet leaves the session with.
VersionAfterSync == 1

\* negotiated_version = min(client_version, server_version)
Negotiate(client_version) == Min(client_version, ServerMaxVersion)

HandleSync ==
  /\ UNCHANGED <<starts_used, open_dirs>>
  /\ req' = Kind(SyncPacket)
  /\ IF badgelink_xfer_type = "FS"
     THEN badgelink_fs_xfer_stop(TRUE)
     ELSE /\ resp' = NoPacket
          /\ UNCHANGED <<fs, badgelink_xfer_is_upload, badgelink_xfer_size,
                         badgelink_xfer_pos, xfer_path, xfer_fd, xfer_is_sd,
                         xfer_crc32, running_crc>>
  /\ badgelink_xfer_type' = "NONE"
  /\ protocol_version' = VersionAfterSync
  /\ committed' = CommitAfter
  /\ aborted' = IF badgelink_xfer_type = "APPFS" THEN "appfs"
                ELSE IF badgelink_xfer_type = "NONE" THEN "none"
                ELSE IF badgelink_xfer_is_upload THEN "upload" ELSE "download"
  /\ enumerated' = <<>>
  /\ write_errno' = ""
  /\ HistoryCleared

HandleVersionReq(cv) ==
  /\ UNCHANGED <<starts_used, open_dirs>>
  /\ req' = Kind(VersionReq(cv))
  /\ protocol_version' = Negotiate(cv)
  /\ resp' = VersionResp(ServerMaxVersion, Negotiate(cv))
  /\ aborted' = "none"
  /\ enumerated' = <<>>
  /\ write_errno' = ""
  /\ UNCHANGED <<fs, xferVars, up_ok_data, up_all_ok, dl_sent, dl_v2, committed>>

HandleFsAction(r) ==
  /\ IF ~TransferActive /\ r.type \in {"FsActionUpload", "FsActionDownload"}
     THEN starts_used < MaxStarts /\ starts_used' = starts_used + 1
     ELSE starts_used' = starts_used
  /\ req' = Kind(r)
  /\ badgelink_fs_handle(r)
  /\ LET started == ~TransferActive /\ badgelink_xfer_type' = "FS"
         up == started /\ r.type = "FsActionUpload"
         down == started /\ r.type = "FsActionDownload"
     IN /\ up_ok_data' = IF up THEN <<>> ELSE up_ok_data
        /\ up_all_ok' = IF up THEN TRUE ELSE up_all_ok
        /\ dl_sent' = IF down THEN <<>> ELSE dl_sent
        /\ dl_v2' = IF down THEN protocol_version >= 2 ELSE dl_v2
  /\ committed' = CommitAfter
  /\ aborted' = "none"
  /\ IF r.type = "FsActionList" THEN TRUE
     ELSE enumerated' = <<>> /\ open_dirs' = open_dirs
  /\ write_errno' = ""
  /\ UNCHANGED protocol_version

\* Mutant: the test looks at the handle, which outlives the transfer.
NoTransfer_by_handle == badgelink_xfer_type = "NONE" /\ xfer_fd.st = "null"

\* The test the chunk and finish requests are refused by when nothing is
\* being transferred.
NoTransfer == badgelink_xfer_type = "NONE"

\* Start of an application-storage upload: it takes the transfer slot.
HandleAppfsUpload(sz) ==
  /\ IF ~TransferActive
     THEN starts_used < MaxStarts /\ starts_used' = starts_used + 1
     ELSE starts_used' = starts_used
  /\ req' = Kind(AppfsActionReq("AppfsActionUpload"))
  /\ IF TransferActive
     THEN /\ resp' = StatusResp("StatusIllState")
          /\ UNCHANGED xferVars
     ELSE /\ badgelink_xfer_type' = "APPFS"
          /\ badgelink_xfer_is_upload' = TRUE
          /\ badgelink_xfer_size' = sz
          /\ badgelink_xfer_pos' = 0
          /\ resp' = StatusResp("StatusOk")
          /\ UNCHANGED <<xfer_path, xfer_fd, xfer_is_sd, xfer_crc32, running_crc>>
  /\ aborted' = "none"
  /\ enumerated' = <<>>
  /\ write_errno' = ""
  /\ UNCHANGED <<fs, protocol_version, up_ok_data, up_all_ok, dl_sent, dl_v2,
                 committed, open_dirs>>

HandleUploadChunk(d) ==
  /\ UNCHANGED <<starts_used, open_dirs>>
  /\ badgelink_xfer_type # "APPFS"
  /\ req' = Kind(UploadChunk(d))
  /\ IF NoTransfer \/ ~badgelink_xfer_is_upload
     THEN /\ resp' = StatusResp("StatusIllState")
          /\ aborted' = "none"
          /\ enumerated' = <<>>
          /\ write_errno' = ""
          /\ UNCHANGED <<fs, xferVars, up_ok_data, up_all_ok, dl_sent, dl_v2, committed>>
     ELSE /\ Len(fs[xfer_path].data) + Len(d) <= MaxLen
          /\ badgelink_fs_xfer_upload(UploadChunk(d))
          /\ LET ok == resp'.status_code = "StatusOk"
             IN /\ badgelink_xfer_pos' = IF ok THEN badgelink_xfer_pos + Len(d)
                                         ELSE badgelink_xfer_pos
                /\ up_ok_data' = IF ok THEN up_ok_data \o d ELSE up_ok_data
                /\ up_all_ok' = (up_all_ok /\ ok)
          /\ committed' = CommitAfter
          /\ aborted' = "none"
          /\ enumerated' = <<>>
          /\ UNCHANGED <<dl_sent, dl_v2>>
  /\ UNCHANGED protocol_version

HandleXferContinue ==
  /\ UNCHANGED <<starts_used, open_dirs>>
  /\ badgelink_xfer_type # "APPFS"
  /\ req' = Kind(XferContinue)
  /\ IF NoTransfer \/ badgelink_xfer_is_upload
     THEN /\ resp' = StatusResp("StatusIllState")
          /\ aborted' = "none"
          /\ enumerated' = <<>>
          /\ write_errno' = ""
          /\ UNCHANGED <<fs, xferVars, up_ok_data, up_all_ok, dl_sent, dl_v2, committed>>
     ELSE /\ badgelink_fs_xfer_download
          /\ LET sent == resp'.tag = "download_chunk"
             IN /\ badgelink_xfer_pos' = IF sent THEN badgelink_xfer_pos + Len(resp'.data)
                                         ELSE badgelink_xfer_pos
                /\ dl_sent' = IF sent THEN dl_sent \o resp'.data ELSE dl_sent
          /\ dl_v2' = (dl_v2 /\ protocol_version >= 2)
          /\ aborted' = "none"
          /\ enumerated' = <<>>
          /\ write_errno' = ""
          /\ UNCHANGED <<up_ok_data, up_all_ok, committed>>
  /\ UNCHANGED protocol_version

HandleXferFinish ==
  /\ UNCHANGED <<starts_used, open_dirs>>
  /\ badgelink_xfer_type # "APPFS"
  /\ req' = Kind(XferFinish)
  /\ IF NoTransfer
     THEN /\ resp' = StatusResp("StatusIllState")
          /\ aborted' = "none"
          /\ enumerated' = <<>>
          /\ write_errno' = ""
          /\ UNCHANGED <<fs, xferVars, up_ok_data, up_all_ok, dl_sent, dl_v2, committed>>
     ELSE /\ badgelink_fs_xfer_stop(FALSE)
          /\ badgelink_xfer_type' = "NONE"
          /\ committed' =
               IF badgelink_xfer_is_upload /\ up_all_ok
                  /\ resp'.status_code = "StatusOk"
               THEN [CommitAfter EXCEPT ![xfer_path] =
                       [known |-> TRUE, data |-> up_ok_data]]
               ELSE CommitAfter
          /\ aborted' = "none"
          /\ enumerated' = <<>>
          /\ write_errno' = ""
          /\ HistoryCleared
  /\ UNCHANGED protocol_version

Next ==
  \/ HandleSync
  \/ \E cv \in 0..MaxClientVersion : HandleVersionReq(cv)
  \/ \E r \in FsRequests : HandleFsAction(r)
  \/ \E sz \in ReqSizes : HandleAppfsUpload(sz)
  \/ \E d \in ChunkData : HandleUploadChunk(d)
  \/ HandleXferContinue
  \/ HandleXferFinish

Spec == Init /\ [][Next]_vars

(***************************************************************************)
(* The same engine with the directory and attribute requests added; one    *)
(* start request is handled per behaviour.                                 *)
(***************************************************************************)
InitDir ==
  /\ starts_used = MaxStarts - 1
  /\ fs \in InitialStorage
  /\ protocol_version = 1
  /\ badgelink_xfer_type = "NONE"
  /\ badgelink_xfer_is_upload = FALSE
  /\ badgelink_xfer_size = 0
  /\ badgelink_xfer_pos = 0
  /\ xfer_path = ""
  /\ xfer_fd = NullFd
  /\ xfer_is_sd = FALSE
  /\ xfer_crc32 = Zero32
  /\ running_crc = Zero32
  /\ req = Kind(NoReq)
  /\ resp = NoPacket
  /\ up_ok_data = <<>>
  /\ up_all_ok = TRUE
  /\ dl_sent = <<>>
  /\ dl_v2 = FALSE
  /\ committed = [p \in Paths |-> NoCommit]
  /\ aborted = "none"
  /\ enumerated = <<>>
  /\ write_errno = ""
  /\ open_dirs = 0

NextDir ==
  \/ HandleSync
  \/ \E cv \in 0..MaxClientVersion : HandleVersionReq(cv)
  \/ \E r \in FsRequests \cup DirRequests : HandleFsAction(r)
  \/ \E sz \in ReqSizes : HandleAppfsUpload(sz)
  \/ \E d \in ChunkData : HandleUploadChunk(d)
  \/ HandleXferContinue
  \/ HandleXferFinish

SpecDir == InitDir /\ [][NextDir]_vars

(***************************************************************************)
(* Properties.                                                             *)
(***************************************************************************)
Active == badgelink_xfer_type # "NONE"
IsStartReq(k) == k.tag = "fs_action" /\ k.type \in {"FsActionUpload", "FsActionDownload"}
Ok == StatusResp("StatusOk")
IllState == StatusResp("StatusIllState")
InternalError == StatusResp("StatusInternalError")

\* C1: while a transfer is active (filesystem or application storage, upload
\* or download), an Upload or Download start request is answered
\* StatusIllState and changes neither the transfer (domain, direction, path,
\* handle, expected size, position, expected CRC, running CRC) nor any file.
C1_RejectedStartChangesNothing ==
  [][ (Active /\ IsStartReq(req'))
        => (resp' = IllState /\ UNCHANGED <<fs, xferVars>>) ]_vars

\* An Upload start was just rejected during a download that has sent data.
C1_Witness ==
  /\ req.tag = "fs_action" /\ req.type = "FsActionUpload"
  /\ resp = IllState
  /\ badgelink_xfer_type = "FS" /\ ~badgelink_xfer_is_upload
  /\ badgelink_xfer_pos > 0

\* The last request was an XferFinish that ended a filesystem upload.
UploadFinished ==
  req.tag = "xfer_finish" /\ resp # IllState /\ badgelink_xfer_is_upload

\* C2: XferFinish on an active upload closes the handle; with the running CRC
\* equal to the expected CRC it answers StatusOk and the target file exists,
\* otherwise it answers StatusInternalError and the target path does not exist.
C2_UploadFinish ==
  UploadFinished =>
    /\ xfer_fd.st = "closed"
    /\ IF running_crc = xfer_crc32
       THEN resp = Ok /\ fs[xfer_path].kind = "file"
       ELSE resp = InternalError /\ fs[xfer_path].kind = "none"

\* An upload of two bytes was just finished with matching CRC.
C2_Witness ==
  /\ UploadFinished /\ resp = Ok
  /\ running_crc = xfer_crc32
  /\ Len(fs[xfer_path].data) = 2

\* C3: a sync packet that arrives during a filesystem transfer closes the
\* handle, deletes the target if and only if the transfer was an upload, sends
\* no packet and leaves the transfer slot Idle; a start request that follows
\* the sync is not answered StatusIllState.
C3_SyncAborts ==
  [][ /\ (req'.tag = "sync" /\ Active)
         => /\ resp' = NoPacket
            /\ badgelink_xfer_type' = "NONE"
            /\ badgelink_xfer_type = "FS"
                 => /\ xfer_fd.st = "open" /\ xfer_fd'.st = "closed"
                    /\ IF badgelink_xfer_is_upload
                       THEN /\ fs'[xfer_path].kind = "none"
                            /\ \A p \in Paths \ {xfer_path} : fs'[p] = fs[p]
                       ELSE fs' = fs /\ fs'[xfer_path].kind = "file"
      /\ (req.tag = "sync" /\ IsStartReq(req')) => resp' # IllState
    ]_vars

\* A sync just aborted a download; its target is still there.
C3_Witness ==
  /\ req.tag = "sync" /\ aborted = "download"
  /\ resp = NoPacket
  /\ badgelink_xfer_type = "NONE"
  /\ xfer_fd.st = "closed"
  /\ fs[xfer_path].kind = "file"

\* C4: the protocol version is 1 at start-up and right after every sync
\* packet, whatever was negotiated before, and no request other than a sync
\* or a VersionReq changes it.
C4_VersionDefault ==
  /\ badgelink_get_protocol_version = 1
  /\ [][ /\ req'.tag = "sync" => protocol_version' = 1
         /\ req'.tag \notin {"sync", "version_req"}
              => protocol_version' = protocol_version ]_vars

\* A sync just ended a session with an active download and left version 1
\* behind; requests were handled before it.
C4_Witness ==
  /\ req.tag = "sync" /\ aborted = "download"
  /\ badgelink_get_protocol_version = 1
  /\ starts_used = MaxStarts

\* C5: a VersionReq carrying client_version stores
\* min(client_version, server maximum) and answers with a VersionResp holding
\* the server maximum and the stored value; the stored value stays until the
\* next VersionReq or sync.
C5_Negotiation ==
  /\ [](req.tag = "version_req" =>
          LET n == IF req.client_version < ServerMaxVersion
                   THEN req.client_version ELSE ServerMaxVersion
          IN /\ badgelink_get_protocol_version = n
             /\ resp = VersionResp(ServerMaxVersion, n))
  /\ [][ req'.tag \notin {"sync", "version_req"}
           => protocol_version' = protocol_version ]_vars

\* A client that offered more than the server supports was just answered.
C5_Witness ==
  /\ req.tag = "version_req" /\ req.client_version > ServerMaxVersion
  /\ resp.tag = "version_resp"
  /\ badgelink_get_protocol_version = ServerMaxVersion

\* The last request was a Download start that was accepted.
DownloadStarted ==
  req.tag = "fs_action" /\ req.type = "FsActionDownload" /\ resp.tag = "fs_resp"

DownloadFinished ==
  req.tag = "xfer_finish" /\ resp # IllState /\ ~badgelink_xfer_is_upload

\* C7: XferFinish on an active download closes the handle; under version 2 or
\* higher it answers with a filesystem response holding the running CRC and
\* the size reported at the start, under version 1 with a plain StatusOk.
C7_DownloadFinish ==
  DownloadFinished =>
    /\ xfer_fd.st = "closed"
    /\ badgelink_get_protocol_version >= 2
         => resp = FsCrcResp(running_crc, badgelink_xfer_size)
    /\ badgelink_get_protocol_version = 1 => resp = Ok

\* A download of a non-empty file was just finished under version 2.
C7_Witness ==
  /\ DownloadFinished
  /\ badgelink_get_protocol_version = 2
  /\ resp.tag = "fs_resp" /\ resp.size > 0
  /\ resp.crc32 = running_crc

\* C8: whenever the XferFinish of a download is answered with a crc32, that
\* crc32 is the CRC32 of the concatenation of the data of all DownloadChunk
\* responses sent during that transfer, whatever requests came in between.
C8_FinishCrcCoversSentData ==
  [][ (req'.tag = "xfer_finish" /\ resp'.tag = "fs_resp")
        => resp'.crc32 = Crc32(dl_sent) ]_vars

\* The upload stored at the path being downloaded, if one is on record.
Uploaded == committed[xfer_path]
DownloadActive == badgelink_xfer_type = "FS" /\ ~badgelink_xfer_is_upload

\* C9: when a path holds bytes B of an upload whose start, chunks and finish
\* were all answered StatusOk, a download of that path reports Len(B), sends
\* chunks whose concatenation is a prefix of B and is B once Len(B) bytes were
\* sent, and on a download whose start, chunks and finish all run under
\* version 2 or higher the finish after the last byte reports CRC32(B).
C9_RoundTrip ==
  /\ []((DownloadActive /\ Uploaded.known) =>
          /\ badgelink_xfer_size = Len(Uploaded.data)
          /\ Len(dl_sent) <= Len(Uploaded.data)
          /\ dl_sent = SubSeq(Uploaded.data, 1, Len(dl_sent)))
  /\ [][ ( /\ DownloadActive /\ Uploaded.known
           /\ req'.tag = "xfer_finish"
           /\ Len(dl_sent) = Len(Uploaded.data)
           /\ dl_v2 /\ badgelink_get_protocol_version >= 2 )
         => resp' = FsCrcResp(Crc32(Uploaded.data), Len(Uploaded.data)) ]_vars

\* A version 2 download of two uploaded bytes was just finished with the CRC
\* of those bytes.
C9_Witness ==
  /\ DownloadFinished
  /\ Uploaded.known /\ Len(Uploaded.data) = 2
  /\ resp = FsCrcResp(Crc32(Uploaded.data), 2)

UploadActive == badgelink_xfer_type = "FS" /\ badgelink_xfer_is_upload

\* C10: during an active upload the running CRC is the CRC32, from initial
\* value 0, of the concatenation in order of the data of the chunks answered
\* StatusOk, wherever the chunk boundaries fall; a chunk answered with an
\* error status leaves the running CRC as it was.
C10_RunningCrc ==
  /\ [](UploadActive => running_crc = Crc32(up_ok_data))
  /\ [][ (req'.tag = "upload_chunk" /\ resp' # Ok)
           => running_crc' = running_crc ]_vars

\* Two bytes were acknowledged in an upload in which a chunk also failed.
C10_Witness ==
  /\ UploadActive
  /\ req.tag = "upload_chunk" /\ resp = Ok
  /\ ~up_all_ok
  /\ Len(up_ok_data) = 2
  /\ running_crc = Crc32(up_ok_data)

\* The last request was a List that was answered with a listing.
Listed == req.tag = "fs_action" /\ req.type = "FsActionList" /\ resp.tag = "fs_list"
NotDot(ent) == ent.name \notin {".", ".."}
\* The entries readdir returned to the last List, without `.` and `..`.
Matching == SelectSeq(enumerated, NotDot)

\* C11: a List response holds no entry named `.` or `..`, and its total_size
\* is the number of entries of the enumeration other than `.` and `..`,
\* whether or not the enumeration returns those two names.
C11_ListSkipsDots ==
  Listed =>
    /\ \A i \in 1..Len(resp.list) : NotDot(resp.list[i])
    /\ resp.total_size = Len(Matching)

\* C12: a List with list_offset k on a directory with N matching entries
\* answers total_size N and list_count min(N - k, capacity) (0 when k is
\* beyond N), never more than the capacity, and the entries returned are the
\* matching entries k+1 .. k+list_count in enumeration order.
C12_ListPagination ==
  Listed =>
    LET N == Len(Matching)
        k == req.list_offset
        left == IF N > k THEN N - k ELSE 0
        count == IF left < ListCapacity THEN left ELSE ListCapacity
    IN /\ resp.total_size = N
       /\ resp.list_count = count
       /\ resp.list_count <= ListCapacity
       /\ resp.list = SubSeq(Matching, k + 1, k + count)

\* The action types badgelink_fs_handle has a case for.
HandledTypes ==
  {"FsActionList", "FsActionDelete", "FsActionMkdir", "FsActionUpload",
   "FsActionDownload", "FsActionStat", "FsActionRmdir"}

\* C13: a filesystem request of any other action type, the standalone CRC32
\* and the usage-statistics types among them, is answered StatusNotSupported
\* and changes neither the version, nor the transfer state, nor the storage.
C13_UnsupportedType ==
  [][ (req'.tag = "fs_action" /\ req'.type \notin HandledTypes)
        => /\ resp' = StatusResp("StatusNotSupported")
           /\ UNCHANGED <<fs, protocol_version, xferVars>> ]_vars

\* A usage-statistics request was just refused during a version 2 upload.
C13_Witness ==
  /\ req.tag = "fs_action" /\ req.type = "FsActionGetUsage"
  /\ resp = StatusResp("StatusNotSupported")
  /\ UploadActive
  /\ badgelink_get_protocol_version = 2

\* C14: every request is answered by one response packet on every handler
\* path, backend failures included, before the next request is handled; a
\* sync packet, also one that aborts a transfer, is answered by none.
C14_OneResponse ==
  /\ req.tag = "sync" => resp = NoPacket
  /\ req.tag \notin {"none", "sync"}
       => /\ resp # NoPacket
          /\ resp.tag \in {"status", "fs_resp", "fs_list", "fs_stat",
                           "download_chunk", "version_resp"}
          /\ resp.status_code # ""

\* A read error during a download was just answered with one status packet.
C14_Witness ==
  /\ req.tag = "xfer_continue"
  /\ DownloadActive /\ xfer_fd.err
  /\ resp = InternalError

\* C15: UploadChunk, XferContinue and XferFinish that arrive while no transfer
\* is active are answered StatusIllState, touch neither the storage nor the
\* handle, and leave the engine Idle with the version it had.
C15_IdleChunkRefused ==
  [][ (badgelink_xfer_type = "NONE"
       /\ req'.tag \in {"upload_chunk", "xfer_continue", "xfer_finish"})
        => /\ resp' = IllState
           /\ badgelink_xfer_type' = "NONE"
           /\ UNCHANGED <<fs, xferVars, protocol_version>> ]_vars

\* An UploadChunk was just refused after an earlier transfer had ended.
C15_Witness ==
  /\ req.tag = "upload_chunk" /\ resp = IllState
  /\ badgelink_xfer_type = "NONE"
  /\ xfer_fd.st = "closed" /\ badgelink_xfer_is_upload

\* C16: between two requests the engine holds an open file handle exactly
\* when a filesystem transfer is active; a handle that is open stays open or
\* is closed, never dropped; and no handle is closed more than once, whether
\* by the finish, the abort or the failing start that opened it.
C16_HandleOwnership ==
  /\ []( /\ (xfer_fd.st = "open") <=> (badgelink_xfer_type = "FS")
         /\ xfer_fd.st = "closed" => xfer_fd.closes = 1
         /\ xfer_fd.st # "closed" => xfer_fd.closes = 0 )
  /\ [][ xfer_fd.st = "open"
           => \/ xfer_fd'.st = "open" /\ badgelink_xfer_type' = "FS"
              \/ xfer_fd'.st = "closed" /\ xfer_fd'.closes = 1
                 /\ badgelink_xfer_type' = "NONE" ]_vars

\* A version 2 download start just failed in its size query and closed the
\* stream it had opened.
C16_Witness ==
  /\ req.tag = "fs_action" /\ req.type = "FsActionDownload"
  /\ resp = InternalError
  /\ badgelink_get_protocol_version >= 2
  /\ xfer_fd.st = "closed" /\ xfer_fd.closes = 1
  /\ badgelink_xfer_type = "NONE"

\* The request handled last was a start request that failed.
StartFailed ==
  IsStartReq(req) /\ resp.tag = "status"
  /\ resp.status_code \notin {"StatusOk", "StatusIllState"}

\* C17: a start request handled from Idle that is not accepted is answered
\* NotFound when the target (for an upload, the directory it lies in) is
\* missing, IsDir when the target is a directory and InternalError otherwise,
\* leaves the engine Idle with no handle open, and a start request that
\* follows it is not answered StatusIllState.
C17_FailedStart ==
  [][ /\ (badgelink_xfer_type = "NONE" /\ IsStartReq(req')
          /\ resp'.status_code # "StatusOk")
         => LET p == req'.path
                missing == IF req'.type = "FsActionUpload"
                           THEN ~IsDirectory(Parent(p))
                           ELSE fs[p].kind = "none"
            IN /\ resp' = StatusResp(IF missing THEN "StatusNotFound"
                                     ELSE IF fs[p].kind = "dir" THEN "StatusIsDir"
                                     ELSE "StatusInternalError")
               /\ badgelink_xfer_type' = "NONE"
               /\ xfer_fd'.st # "open"
      /\ (StartFailed /\ IsStartReq(req')) => resp' # IllState
    ]_vars

\* A Download of a directory was just refused; no handle is open.
C17_Witness ==
  /\ StartFailed
  /\ req.type = "FsActionDownload" /\ req.path = "/d"
  /\ resp = StatusResp("StatusIsDir")
  /\ badgelink_xfer_type = "NONE" /\ xfer_fd.st = "null"

\* The request handled last was an UploadChunk whose write came up short.
ShortWrite == req.tag = "upload_chunk" /\ write_errno # ""

\* C18: an UploadChunk whose write is short is answered StatusNoSpace when
\* the storage is exhausted and StatusInternalError for any other reason; the
\* upload stays active with the handle, expected size, expected CRC, position
\* and running CRC it had, and an UploadChunk or XferFinish that follows is
\* not answered StatusIllState.
C18_ShortWrite ==
  [][ /\ (UploadActive /\ req'.tag = "upload_chunk" /\ write_errno' # "")
         => /\ resp' = StatusResp(IF write_errno' = "ENOSPC" THEN "StatusNoSpace"
                                  ELSE "StatusInternalError")
            /\ UNCHANGED <<badgelink_xfer_type, badgelink_xfer_is_upload,
                           badgelink_xfer_size, badgelink_xfer_pos, xfer_path,
                           xfer_fd, xfer_crc32, running_crc>>
      /\ (ShortWrite /\ req'.tag \in {"upload_chunk", "xfer_finish"})
           => resp' # IllState
    ]_vars

\* A chunk was just refused for lack of space after another had been stored.
C18_Witness ==
  /\ ShortWrite /\ write_errno = "ENOSPC"
  /\ resp = StatusResp("StatusNoSpace")
  /\ UploadActive /\ xfer_fd.st = "open"
  /\ Len(up_ok_data) > 0

\* C19: Delete, Mkdir and Rmdir answer by the error table.  Delete: missing
\* NotFound, directory IsDir; Mkdir: existing Exists, parent missing NotFound;
\* Rmdir: missing NotFound, non-empty NotEmpty, file IsFile; success Ok with
\* the target removed or created; any other backend failure InternalError
\* with the storage as it was.  None of them changes the transfer state, also
\* while a transfer is active.
C19_StatelessStatus ==
  [][ (req'.tag = "fs_action"
       /\ req'.type \in {"FsActionDelete", "FsActionMkdir", "FsActionRmdir"})
        => LET p == req'.path
               t == req'.type
               done == resp' = Ok
               failed == resp' = InternalError /\ fs' = fs
               answer(code) == resp' = StatusResp(code) /\ fs' = fs
               others == \A q \in Paths \ {p} : fs'[q] = fs[q]
           IN /\ UNCHANGED xferVars
              /\ t = "FsActionDelete" =>
                   IF ~Exists(p) THEN answer("StatusNotFound")
                   ELSE IF IsDirectory(p) THEN answer("StatusIsDir")
                   ELSE IF HeldOpen(p) THEN failed
                   ELSE done /\ fs'[p] = Absent /\ others
              /\ t = "FsActionMkdir" =>
                   IF Exists(p) THEN answer("StatusExists")
                   ELSE IF ~IsDirectory(Parent(p)) THEN answer("StatusNotFound")
                   ELSE failed \/ (done /\ fs'[p] = Directory /\ others)
              /\ t = "FsActionRmdir" =>
                   IF ~Exists(p) THEN answer("StatusNotFound")
                   ELSE IF ~IsDirectory(p) THEN answer("StatusIsFile")
                   ELSE IF Children(p) # <<>> THEN answer("StatusNotEmpty")
                   ELSE failed \/ (done /\ fs'[p] = Absent /\ others)
    ]_vars

\* An Rmdir of a file was just refused while a download was active.
C19_Witness ==
  /\ req.tag = "fs_action" /\ req.type = "FsActionRmdir"
  /\ req.path = "/sd/b" /\ fs["/sd/b"].kind = "file"
  /\ resp = StatusResp("StatusIsFile")
  /\ DownloadActive /\ badgelink_xfer_pos > 0

\* C20: during an active transfer the position never exceeds the expected
\* size, and each DownloadChunk response carries as position the number of
\* bytes sent in the earlier chunks of the same download.
C20_PositionBounded ==
  /\ Active => badgelink_xfer_pos <= badgelink_xfer_size
  /\ (DownloadActive /\ req.tag = "xfer_continue" /\ resp.tag = "download_chunk")
       => resp.position + Len(resp.data) = Len(dl_sent)

\* C21: in every reachable state the negotiated version is at least 1 and at
\* most the server maximum, whatever client_version values (0 among them) the
\* VersionReq requests carried and whatever was handled in between.
C21_VersionRange ==
  /\ 1 <= badgelink_get_protocol_version
  /\ badgelink_get_protocol_version <= ServerMaxVersion

\* C22: whenever the XferFinish of an upload is answered StatusOk, the target
\* file holds the data of the UploadChunk requests answered StatusOk in that
\* transfer, joined in order, also when other chunks of the transfer were
\* answered StatusNoSpace or StatusInternalError after a short write.
C22_FileIsAcknowledgedData ==
  [][ (UploadActive /\ req'.tag = "xfer_finish" /\ resp' = Ok)
        => /\ fs'[xfer_path].kind = "file"
           /\ fs'[xfer_path].data = up_ok_data ]_vars

\* C23: the List handler holds no directory stream once it has sent its
\* response: after any sequence of List requests, accepted or failing, and
\* whatever else was handled, no directory stream is open.
C23_NoOpenDirectory == open_dirs = 0

====
